---- MODULE Spec2Model ----
(***************************************************************************)
(* State-machine model of the Team Logger API (src/main.py, src/schemas.py) *)
(*                                                                         *)
(* The document store is modelled as one set of documents per collection.  *)
(* A document is a function from field names to values; a field that is   *)
(* not in the DOMAIN of the document is absent ($exists: false), a field   *)
(* holding None is present with the value null.                            *)
(*                                                                         *)
(* The specifications share the variables:                                 *)
(*   Spec        - the record / trash endpoints (one store call each)      *)
(*   SpecTrash   - the trash lifecycle with a clock of 15-day steps        *)
(*   SpecUsers   - the user endpoints, run by concurrent workers, one step *)
(*                 per store call                                          *)
(*   SpecDevices - the user endpoints together with create team            *)
(*   SpecTeams   - create user and the team endpoints, run the same way    *)
(*   SpecCrash   - create user, create team and join team with workers     *)
(*                 that may stop between two store calls                   *)
(***************************************************************************)
EXTENDS Integers, Sequences, FiniteSets, TLC

VARIABLES
    record,     \* db["record"]: set of documents
    user,       \* db["user"]: set of documents
    team,       \* db["team"]: set of documents
    nextOid,    \* per collection: number of ObjectIds generated so far
    now,        \* datetime.now(timezone.utc), in days
    resp,       \* the last HTTP response of the record endpoints (with its request)
    life,       \* history: per stored record id, its stage in the trash lifecycle
    pc,         \* per worker: position inside the handler it is running
    req,        \* per worker: the request being handled
    out         \* the last response a worker sent (with its request)

vars == <<record, user, team, nextOid, now, resp, life, pc, req, out>>

recVars == <<record, nextOid, now, resp, life>>
teamVars == <<user, team, pc, req, out>>

----------------------------------------------------------------------------
(* Bounds of the model *)

MaxRecords == 2     \* records ever created
MaxTime == 30       \* the clock stops here
MaxUsers == 2       \* users ever created
MaxTeams == 1       \* teams ever created
MaxDevices == 2     \* device registrations per user

TickSteps == {30}   \* the clock advances in steps of this many days
HalfSteps == {15}   \* or, where a claim needs instants inside the 30 days, of this many

----------------------------------------------------------------------------
(* Optional values: None is the empty sequence, a present value v is <<v>> *)

None == <<>>
Some(v) == <<v>>

----------------------------------------------------------------------------
(* Id strings.                                                             *)
(* Chars gives the characters of every string the model uses; a character  *)
(* is a number: 0..9 the digits, 10..15 'a'..'f', 16..21 'A'..'F', 22 'g'  *)
(* (not hexadecimal).                                                      *)

OidLen == 24

\* the 24-character string first, mid, ..., mid, last
Pat(first, mid, last) ==
    [i \in 1..OidLen |-> IF i = 1 THEN first ELSE IF i = OidLen THEN last ELSE mid]

Chars ==
    ("10000000000000000000000a" :> Pat(1, 0, 10)) @@
    ("10000000000000000000000b" :> Pat(1, 0, 11)) @@
    ("10000000000000000000000c" :> Pat(1, 0, 12)) @@
    ("10000000000000000000000d" :> Pat(1, 0, 13)) @@
    ("10000000000000000000000A" :> Pat(1, 0, 16)) @@
    ("20000000000000000000000a" :> Pat(2, 0, 10)) @@
    ("20000000000000000000000b" :> Pat(2, 0, 11)) @@
    ("20000000000000000000000c" :> Pat(2, 0, 12)) @@
    ("20000000000000000000000d" :> Pat(2, 0, 13)) @@
    ("20000000000000000000000A" :> Pat(2, 0, 16)) @@
    ("30000000000000000000000a" :> Pat(3, 0, 10)) @@
    ("30000000000000000000000b" :> Pat(3, 0, 11)) @@
    ("30000000000000000000000c" :> Pat(3, 0, 12)) @@
    ("30000000000000000000000d" :> Pat(3, 0, 13)) @@
    ("30000000000000000000000A" :> Pat(3, 0, 16)) @@
    ("111111111111111111111111" :> Pat(1, 1, 1)) @@
    ("aaaaaaaaaaaaaaaaaaaaaaaa" :> Pat(10, 10, 10)) @@
    ("bbbbbbbbbbbbbbbbbbbbbbbb" :> Pat(11, 11, 11)) @@
    ("gggggggggggggggggggggggg" :> Pat(22, 22, 22)) @@
    ("ab" :> <<10, 11>>) @@
    ("" :> <<>>)

\* the string with the given characters
Text(cs) == CHOOSE t \in DOMAIN Chars : Chars[t] = cs

IsHexChar(c) == c \in 0..21

LowerChar(c) == IF c \in 16..21 THEN c - 6 ELSE c

\* the strings ObjectId() accepts: 24 characters, all hexadecimal
ValidOids ==
    {s \in DOMAIN Chars :
        Len(Chars[s]) = OidLen /\ \A i \in 1..Len(Chars[s]) : IsHexChar(Chars[s][i])}

\* str(ObjectId(s)) for each of them: bytes.fromhex reads both cases, str()
\* renders lower case
Canonical ==
    [s \in ValidOids |-> Text([i \in 1..Len(Chars[s]) |-> LowerChar(Chars[s][i])])]

\* oid(value) raises HTTPException(400) unless the value is a valid id
IsValidOid(s) == s \in ValidOids

\* oid(value), rendered as text
ObjectId(s) == Canonical[s]

\* the k-th id generated for a collection; the first character tells the
\* collections' ids apart (ObjectIds never repeat)
GenOid(coll, k) ==
    Text(Pat(CASE coll = "record" -> 1 [] coll = "user" -> 2 [] OTHER -> 3, 0, 9 + k))

\* a generated id spelled with an upper-case hex letter
Upper(s) == Text([i \in 1..Len(Chars[s]) |->
                    IF Chars[s][i] \in 10..15 THEN Chars[s][i] + 6 ELSE Chars[s][i]])

ShortId == "ab"                             \* too short
NonHexId == "gggggggggggggggggggggggg"      \* right length, not hexadecimal

----------------------------------------------------------------------------
(* The document store (pymongo calls used by the handlers) *)

\* {"$set": updates} applied to one document: sets or adds the fields
SetFields(doc, updates) ==
    [f \in DOMAIN doc \cup DOMAIN updates |->
        IF f \in DOMAIN updates THEN updates[f] ELSE doc[f]]

\* {"$unset": fields} applied to one document: removes the fields
UnsetFields(doc, fields) == [f \in DOMAIN doc \ fields |-> doc[f]]

\* collection.find({"_id": o})
FindById(coll, o) == {d \in coll : d["_id"] = o}

UpdateOneUpsert(coll, o, new) ==
    IF FindById(coll, o) = {} THEN coll \cup {"_id" :> o}
    ELSE {IF d["_id"] = o THEN new[d] ELSE d : d \in coll}

\* collection.update_one({"_id": o}, update): the matched document is replaced
\* by its updated form new[d]; without a match nothing is written
\* (matched_count = 0)
UpdateOne(coll, o, new) == {IF d["_id"] = o THEN new[d] ELSE d : d \in coll}

\* collection.insert_one(doc): the document is stored under a fresh _id
InsertOne(coll, doc, id) == coll \cup {("_id" :> id) @@ doc}

\* all orderings of a finite set
RECURSIVE SeqsOf(_)
SeqsOf(S) ==
    IF S = {} THEN {<<>>}
    ELSE UNION {{<<x>> \o s : s \in SeqsOf(S \ {x})} : x \in S}

\* the BSON sort key of a nullable date: null sorts before every date
DateKey(v) == IF v = None THEN -1 ELSE v[1]

SortAsc(S, key) ==
    {s \in SeqsOf(S) : \A i, j \in 1..Len(s) : i < j => key[s[i]] <= key[s[j]]}

\* cursor.sort(field, -1): any ordering of S that is descending in key[d]
SortDesc(S, key) ==
    {s \in SeqsOf(S) : \A i, j \in 1..Len(s) : i < j => key[s[i]] >= key[s[j]]}

----------------------------------------------------------------------------
(* Records: schemas and request payloads *)

PurgeDays == 30

NullableFields == {"edited_at", "deleted_at", "purge_at", "occurred_at", "title"}

\* schemas.Record(...).model_dump(): every declared field, None included
RecordDump(p) ==
    ("team_id" :> p.team_id) @@ ("author_id" :> p.author_id) @@
    ("type" :> p.type) @@ ("content" :> p.content) @@ ("tags" :> p.tags) @@
    ("is_private" :> p.is_private) @@ ("edited_at" :> None) @@
    ("deleted_at" :> None) @@ ("purge_at" :> None)

\* schemas.LogEntry(...).model_dump()
LogEntry(p) == RecordDump(p) @@ ("occurred_at" :> p.occurred_at)

\* schemas.JournalEntry(...).model_dump()
JournalEntry(p) == RecordDump(p) @@ ("title" :> p.title)

TeamOne == "111111111111111111111111"
AuthorA == "aaaaaaaaaaaaaaaaaaaaaaaa"
AuthorB == "bbbbbbbbbbbbbbbbbbbbbbbb"

\* the CreateRecordRequest bodies the model sends: a private log of author A
\* in team "111...1", and a public journal whose team id and author id are
\* not object ids at all
CreatePayloads ==
    { [team_id |-> TeamOne, author_id |-> AuthorA, type |-> "log",
       content |-> "c1", is_private |-> TRUE, tags |-> <<>>,
       occurred_at |-> None, title |-> None],
      [team_id |-> ShortId, author_id |-> NonHexId, type |-> "journal",
       content |-> "c1", is_private |-> FALSE, tags |-> <<>>,
       occurred_at |-> None, title |-> Some("t1")] }

UpdateFields == {"content", "is_private", "tags", "occurred_at", "title"}

NoUpdate == [f \in UpdateFields |-> None]

\* the UpdateRecordRequest bodies the model sends
UpdatePayloads ==
    { NoUpdate,
      [NoUpdate EXCEPT !["content"] = Some("c2")],
      [NoUpdate EXCEPT !["is_private"] = Some(FALSE), !["tags"] = Some(<<"t">>),
                       !["occurred_at"] = Some(0), !["title"] = Some("t2")] }

UpdatesOfWithNone(payload) ==
    [f \in {g \in UpdateFields : payload[g] # None \/ g \in NullableFields} |->
        IF f \in NullableFields THEN payload[f] ELSE payload[f][1]]

\* payload.model_dump(exclude_none=True): the supplied fields only.
\* A nullable field keeps its Some(v) form in the document.
UpdatesOf(payload) ==
    [f \in {g \in UpdateFields : payload[g] # None} |->
        IF f \in NullableFields THEN payload[f] ELSE payload[f][1]]

\* the record ids the model sends: the generated ones, one of them in upper
\* case, and a malformed string
RecordIdInputs ==
    {GenOid("record", k) : k \in 1..MaxRecords} \cup
    {Upper(GenOid("record", 1)), NonHexId}

TeamIdInputs == {TeamOne, ShortId}

\* Python truthiness of an Optional[str]: None and "" are false
Truthy(x) == x # None /\ x[1] # ""

HasField(d, f) == f \in DOMAIN d

----------------------------------------------------------------------------
(* Record endpoints.  Each handler makes one store call, so each is one step. *)

\* the (type, include_deleted) query parameters the model sends
ListFilters == {<<None, FALSE>>, <<Some("log"), TRUE>>}

\* the (team_id, record_id) query parameters the model sends to purge_expired
PurgeInputs ==
    {<<t, None>> : t \in {None, Some(TeamOne), Some(ShortId)}} \cup
    {<<None, Some(id)>> : id \in RecordIdInputs} \cup
    {<<Some(ShortId), Some(GenOid("record", k))>> : k \in 1..MaxRecords}

RequesterInputs == {None, Some(AuthorA), Some(AuthorB)}

\* HTTPException(status_code=400, detail="Invalid id") raised by oid()
InvalidId(op, id) == [op |-> op, status |-> 400, detail |-> "Invalid id", id |-> id]

\* HTTPException(status_code=404, detail="Record not found")
RecordNotFound(op, id) ==
    [op |-> op, status |-> 404, detail |-> "Record not found", id |-> id]

\* history of a stored record: the last of "created", "trashed" (soft-deleted)
\* and "restored" that happened to it; the response of a soft delete notes in
\* its field "was" the stage the record had before the call
InTrash(stage) == stage = "trashed"

LifeSet(ids, stage) == [i \in DOMAIN life |-> IF i \in ids THEN stage ELSE life[i]]

LifeDrop(ids) == [i \in DOMAIN life \ ids |-> life[i]]

IdsOf(docs) == {d["_id"] : d \in docs}

\* POST /api/records
create_record(p) ==
    /\ nextOid["record"] < MaxRecords
    /\ LET rec == IF p.type = "log" THEN LogEntry(p) ELSE JournalEntry(p)
           doc == SetFields(rec, ("created_at" :> now) @@ ("updated_at" :> now))
           id == GenOid("record", nextOid["record"] + 1)
       IN  /\ record' = InsertOne(record, doc, id)
           /\ resp' = [op |-> "create_record", status |-> 200,
                       id |-> id, payload |-> p]
           /\ life' = (id :> "created") @@ life
    /\ nextOid' = [nextOid EXCEPT !["record"] = @ + 1]
    /\ UNCHANGED <<now, teamVars>>

\* the query of list_records: db["record"].find(q)
RecordQuery(coll, team_id, type, include_deleted) ==
    {d \in coll :
        /\ d["team_id"] = team_id
        /\ Truthy(type) => d["type"] = type[1]
        /\ ~include_deleted => ~HasField(d, "deleted_at")}

\* the loop of list_records that hides private records
Hidden(it, requester_id) ==
    it["is_private"] /\ Truthy(requester_id) /\ requester_id[1] # it["author_id"]

PrivacyFilter(items, requester_id) ==
    SelectSeq(items, LAMBDA it : ~Hidden(it, requester_id))

\* GET /api/records
list_records(team_id, requester_id, type, include_deleted) ==
    /\ \E items \in SortDesc(RecordQuery(record, team_id, type, include_deleted),
                             [d \in record |-> d["created_at"]]) :
         resp' = [op |-> "list_records", status |-> 200, team_id |-> team_id,
                  requester_id |-> requester_id, type |-> type,
                  include_deleted |-> include_deleted,
                  items |-> PrivacyFilter(items, requester_id)]
    /\ UNCHANGED <<record, nextOid, now, life, teamVars>>

\* PUT /api/records/{record_id}
update_record(record_id, payload) ==
    /\ LET updates == SetFields(UpdatesOf(payload), "updated_at" :> now)
           new == [d \in record |-> SetFields(d, updates)]
       IN  IF ~IsValidOid(record_id)
           THEN /\ resp' = InvalidId("update_record", record_id)
                /\ UNCHANGED record
           ELSE IF FindById(record, ObjectId(record_id)) = {}
           THEN /\ record' = UpdateOne(record, ObjectId(record_id), new)
                /\ resp' = RecordNotFound("update_record", record_id)
           ELSE /\ record' = UpdateOne(record, ObjectId(record_id), new)
                /\ resp' = [op |-> "update_record", status |-> 200,
                            id |-> record_id, update |-> payload]
    /\ UNCHANGED <<nextOid, now, life, teamVars>>

SoftDeleteSetOnlyDeletedAt(t, purge) == ("deleted_at" :> Some(t))

\* the update document of soft_delete_record
SoftDeleteSet(t, purge) == ("deleted_at" :> Some(t)) @@ ("purge_at" :> Some(purge))

soft_delete_record_once(record_id) ==
    /\ LET purge == now + PurgeDays
           new == [d \in record |->
                      IF InTrash(life[d["_id"]]) THEN d
                      ELSE SetFields(d, SoftDeleteSet(now, purge))]
       IN  IF ~IsValidOid(record_id)
           THEN /\ resp' = InvalidId("soft_delete_record", record_id)
                /\ UNCHANGED <<record, life>>
           ELSE IF FindById(record, ObjectId(record_id)) = {}
           THEN /\ record' = UpdateOne(record, ObjectId(record_id), new)
                /\ resp' = RecordNotFound("soft_delete_record", record_id)
                /\ UNCHANGED life
           ELSE /\ record' = UpdateOne(record, ObjectId(record_id), new)
                /\ resp' = [op |-> "soft_delete_record", status |-> 200,
                            id |-> record_id, purge_at |-> purge,
                            was |-> life[ObjectId(record_id)]]
                /\ life' = LifeSet({ObjectId(record_id)}, "trashed")
    /\ UNCHANGED <<nextOid, now, teamVars>>

\* DELETE /api/records/{record_id}
soft_delete_record(record_id) ==
    /\ LET purge == now + PurgeDays
           new == [d \in record |-> SetFields(d, SoftDeleteSet(now, purge))]
       IN  IF ~IsValidOid(record_id)
           THEN /\ resp' = InvalidId("soft_delete_record", record_id)
                /\ UNCHANGED <<record, life>>
           ELSE IF FindById(record, ObjectId(record_id)) = {}
           THEN /\ record' = UpdateOne(record, ObjectId(record_id), new)
                /\ resp' = RecordNotFound("soft_delete_record", record_id)
                /\ UNCHANGED life
           ELSE /\ record' = UpdateOne(record, ObjectId(record_id), new)
                /\ resp' = [op |-> "soft_delete_record", status |-> 200,
                            id |-> record_id, purge_at |-> purge,
                            was |-> life[ObjectId(record_id)]]
                /\ life' = LifeSet({ObjectId(record_id)}, "trashed")
    /\ UNCHANGED <<nextOid, now, teamVars>>

\* the query of list_trash
TrashQuery(coll, team_id) ==
    {d \in coll : d["team_id"] = team_id /\ HasField(d, "deleted_at")}

\* GET /api/trash
list_trash(team_id) ==
    /\ \E items \in SortDesc(TrashQuery(record, team_id),
                             [d \in TrashQuery(record, team_id) |->
                                 DateKey(d["deleted_at"])]) :
         resp' = [op |-> "list_trash", status |-> 200, team_id |-> team_id,
                  items |-> items]
    /\ UNCHANGED <<record, nextOid, now, life, teamVars>>

RestoreUnsetOnlyDeletedAt == {"deleted_at"}

\* the fields restore_record unsets
RestoreUnset == {"deleted_at", "purge_at"}

\* POST /api/trash/{record_id}/restore
restore_record(record_id) ==
    /\ LET new == [d \in record |-> UnsetFields(d, RestoreUnset)]
       IN  IF ~IsValidOid(record_id)
           THEN /\ resp' = InvalidId("restore_record", record_id)
                /\ UNCHANGED <<record, life>>
           ELSE IF FindById(record, ObjectId(record_id)) = {}
           THEN /\ record' = UpdateOne(record, ObjectId(record_id), new)
                /\ resp' = RecordNotFound("restore_record", record_id)
                /\ UNCHANGED life
           ELSE /\ record' = UpdateOne(record, ObjectId(record_id), new)
                /\ resp' = [op |-> "restore_record", status |-> 200,
                            id |-> record_id]
                /\ life' = LifeSet({ObjectId(record_id)}, "restored")
    /\ UNCHANGED <<nextOid, now, teamVars>>

ExpiredQueryNullMatches(coll, team_id, t) ==
    {d \in coll :
        /\ HasField(d, "purge_at")
        /\ d["purge_at"] = None \/ d["purge_at"][1] <= t
        /\ Truthy(team_id) => d["team_id"] = team_id[1]}

ExpiredQueryStrictlyBefore(coll, team_id, t) ==
    {d \in coll :
        /\ HasField(d, "purge_at")
        /\ d["purge_at"] # None
        /\ d["purge_at"][1] < t
        /\ Truthy(team_id) => d["team_id"] = team_id[1]}

\* the query of purge_expired: {"purge_at": {"$lte": now}} matches dates only
ExpiredQuery(coll, team_id, t) ==
    {d \in coll :
        /\ HasField(d, "purge_at")
        /\ d["purge_at"] # None
        /\ d["purge_at"][1] <= t
        /\ Truthy(team_id) => d["team_id"] = team_id[1]}

PurgeOneQueryInTeam(coll, team_id, record_id) ==
    {d \in FindById(coll, ObjectId(record_id)) :
        Truthy(team_id) => d["team_id"] = team_id[1]}

\* the query of purge_expired when a record id is given: the id alone
PurgeOneQuery(coll, team_id, record_id) == FindById(coll, ObjectId(record_id))

\* DELETE /api/trash/purge
purge_expired(team_id, record_id) ==
    /\ IF Truthy(record_id)
       THEN IF ~IsValidOid(record_id[1])
            THEN /\ resp' = InvalidId("purge_expired", record_id[1])
                 /\ UNCHANGED <<record, life>>
            ELSE LET hit == PurgeOneQuery(record, team_id, record_id[1])
                 IN  /\ record' = record \ hit
                     /\ resp' = [op |-> "purge_expired", status |-> 200,
                                 team_filter |-> team_id, id_filter |-> record_id,
                                 deleted |-> Cardinality(hit)]
                     /\ life' = LifeDrop(IdsOf(hit))
       ELSE LET hit == ExpiredQuery(record, team_id, now)
            IN  /\ record' = record \ hit
                /\ resp' = [op |-> "purge_expired", status |-> 200,
                            team_filter |-> team_id, id_filter |-> record_id,
                            deleted |-> Cardinality(hit)]
                /\ life' = LifeDrop(IdsOf(hit))
    /\ UNCHANGED <<nextOid, now, teamVars>>

\* time passes between requests, by one of the given numbers of days
Advance(steps) ==
    /\ \E d \in steps : now + d <= MaxTime /\ now' = now + d
    /\ resp' = [op |-> "tick", status |-> 0]
    /\ UNCHANGED <<record, nextOid, life, teamVars>>

Tick == Advance(TickSteps)

\* time passes in steps shorter than the 30 days of the trash
TickHalf == Advance(HalfSteps)

----------------------------------------------------------------------------
(* User and team endpoints.  A handler makes several store calls; a worker *)
(* runs one handler at a time, one store call per step, and other workers  *)
(* may run between two of its steps.  pc[w] names the call w makes next,   *)
(* req[w] holds the request; out is the last response any worker sent.     *)

Workers == {1, 2}

Idle == [op |-> "none"]

\* the CreateUserRequest bodies the model sends
CreateUserPayloads ==
    {[email |-> e, name |-> "n", password |-> "secret", age |-> None,
      theme_preference |-> "family"] : e \in {"a@x.org", "b@x.org"}}

\* schemas.User(...).model_dump(), with created_at; the placeholder hash is the
\* tag "hash:" followed by the plaintext
UserDump(p, t) ==
    ("email" :> p.email) @@ ("name" :> p.name) @@
    ("password_hash" :> <<"hash:", p.password>>) @@ ("age" :> p.age) @@
    ("roles" :> <<>>) @@ ("devices" :> <<>>) @@
    ("theme_preference" :> p.theme_preference) @@ ("created_at" :> t)

EmailHeld(e) == \E u \in user : u["email"] = e

Pending(step) == {w \in Workers : pc[w] = step}

create_user_find_unchecked(w, p) ==
    /\ pc[w] = "idle"
    /\ Cardinality(user) + Cardinality(Pending("create_user_insert")) < MaxUsers
    /\ pc' = [pc EXCEPT ![w] = "create_user_insert"]
    /\ req' = [req EXCEPT ![w] = [op |-> "create_user", payload |-> p]]
    /\ UNCHANGED <<user, team, out, recVars>>

\* POST /api/users, first call: find_one({"email": payload.email})
create_user_find(w, p) ==
    /\ pc[w] = "idle"
    /\ IF EmailHeld(p.email)
       THEN /\ out' = [w |-> w, op |-> "create_user", status |-> 409,
                       detail |-> "Email already registered", email |-> p.email]
            /\ UNCHANGED <<pc, req>>
       ELSE /\ Cardinality(user) + Cardinality(Pending("create_user_insert")) < MaxUsers
            /\ pc' = [pc EXCEPT ![w] = "create_user_insert"]
            /\ req' = [req EXCEPT ![w] = [op |-> "create_user", payload |-> p]]
            /\ UNCHANGED out
    /\ UNCHANGED <<user, team, recVars>>

\* POST /api/users, second call: insert_one
create_user_insert(w) ==
    /\ pc[w] = "create_user_insert"
    /\ LET id == GenOid("user", nextOid["user"] + 1)
       IN  /\ user' = InsertOne(user, UserDump(req[w].payload, now), id)
           /\ out' = [w |-> w, op |-> "create_user", status |-> 200, id |-> id]
    /\ nextOid' = [nextOid EXCEPT !["user"] = @ + 1]
    /\ pc' = [pc EXCEPT ![w] = "idle"]
    /\ req' = [req EXCEPT ![w] = Idle]
    /\ UNCHANGED <<team, record, now, resp, life>>

\* the user ids the model sends
UserIdInputs ==
    {GenOid("user", k) : k \in 1..MaxUsers} \cup {Upper(GenOid("user", 1)), NonHexId}

\* the RegisterDeviceRequest bodies the model sends
DevicePayloads ==
    {[user_id |-> u, platform |-> None, push_token |-> Some(t)] :
        u \in UserIdInputs, t \in {"p1", "p2"}}

\* schemas.UserDevice(...).model_dump()
UserDevice(p, t) ==
    [platform |-> p.platform, push_token |-> p.push_token, last_active_at |-> Some(t)]

DevicesOf(id) == UNION {{u["devices"]} : u \in FindById(user, id)}

\* POST /api/devices/register, first call: find_one({"_id": oid(user_id)})
register_device_find(w, p) ==
    /\ pc[w] = "idle"
    /\ IF ~IsValidOid(p.user_id)
       THEN /\ out' = [w |-> w, op |-> "register_device", status |-> 400,
                       detail |-> "Invalid id", id |-> p.user_id]
            /\ UNCHANGED <<pc, req>>
       ELSE IF FindById(user, ObjectId(p.user_id)) = {}
       THEN /\ out' = [w |-> w, op |-> "register_device", status |-> 404,
                       detail |-> "User not found", id |-> p.user_id]
            /\ UNCHANGED <<pc, req>>
       ELSE /\ \A ds \in DevicesOf(ObjectId(p.user_id)) :
                  Len(ds) + Cardinality(Pending("register_device_push")) < MaxDevices
            /\ pc' = [pc EXCEPT ![w] = "register_device_push"]
            /\ req' = [req EXCEPT ![w] = [op |-> "register_device", payload |-> p]]
            /\ UNCHANGED out
    /\ UNCHANGED <<user, team, recVars>>

PushDeviceOverwrite(u, device) == [u EXCEPT !["devices"] = <<device>>]

\* {"$push": {"devices": device}}
PushDevice(u, device) == [u EXCEPT !["devices"] = Append(@, device)]

\* POST /api/devices/register, second call: update_one with $push
register_device_push(w) ==
    /\ pc[w] = "register_device_push"
    /\ LET p == req[w].payload
           new == [u \in user |-> PushDevice(u, UserDevice(p, now))]
       IN  user' = UpdateOne(user, ObjectId(p.user_id), new)
    /\ out' = [w |-> w, op |-> "register_device", status |-> 200,
               body |-> "ok"]
    /\ pc' = [pc EXCEPT ![w] = "idle"]
    /\ req' = [req EXCEPT ![w] = Idle]
    /\ UNCHANGED <<team, recVars>>

----------------------------------------------------------------------------
(* Team endpoints *)

\* schemas.TeamSettings().model_dump()
TeamSettings ==
    [private_journal_age |-> 15, request_private_from_age |-> 12,
     locale |-> "en", theme_default |-> "family"]

TeamDumpLeaderAsMember(p, t) ==
    ("name" :> p.name) @@ ("leader_id" :> p.leader_user_id) @@
    ("member_ids" :> <<p.leader_user_id>>) @@ ("invites" :> <<>>) @@
    ("settings" :> TeamSettings) @@ ("subscription_tier" :> "starter") @@
    ("created_at" :> t)

\* schemas.Team(name=..., leader_id=...).model_dump(), with created_at
TeamDump(p, t) ==
    ("name" :> p.name) @@ ("leader_id" :> p.leader_user_id) @@
    ("member_ids" :> <<>>) @@ ("invites" :> <<>>) @@
    ("settings" :> TeamSettings) @@ ("subscription_tier" :> "starter") @@
    ("created_at" :> t)

\* {"$set": {"roles.<key>": role}} on a user document
SetRole(u, key, role) ==
    [u EXCEPT !["roles"] =
        [k \in DOMAIN u["roles"] \cup {key} |-> IF k = key THEN role ELSE u["roles"][k]]]

InSeq(seq, v) == \E i \in 1..Len(seq) : seq[i] = v

\* {"$addToSet": {field: v}} on a document: appended unless already there
AddToSet(d, field, v) ==
    [d EXCEPT ![field] = IF InSeq(@, v) THEN @ ELSE Append(@, v)]

\* the CreateTeamRequest bodies the model sends
CreateTeamPayloads ==
    {[name |-> "t", leader_user_id |-> u] : u \in {GenOid("user", 1), NonHexId}}

TeamIdStrings ==
    {GenOid("team", k) : k \in 1..MaxTeams} \cup {Upper(GenOid("team", 1)), NonHexId}

\* the (team_id, user_id) pairs the model sends to join_team
JoinInputs ==
    {<<GenOid("team", 1), u>> : u \in UserIdInputs} \cup
    {<<Upper(GenOid("team", 1)), GenOid("user", 1)>>,
     <<NonHexId, GenOid("user", 1)>>}

\* the (team_id, email) pairs the model sends to invite
InviteInputs == {<<t, "c@x.org">> : t \in {GenOid("team", 1), NonHexId}}

BadId(w, op, id) ==
    [w |-> w, op |-> op, status |-> 400, detail |-> "Invalid id", id |-> id]

NotFound(w, op, what, id) ==
    [w |-> w, op |-> op, status |-> 404, detail |-> what, id |-> id]

\* POST /api/teams, first call: find_one on the leader
create_team_find(w, p) ==
    /\ pc[w] = "idle"
    /\ IF ~IsValidOid(p.leader_user_id)
       THEN /\ out' = BadId(w, "create_team", p.leader_user_id)
            /\ UNCHANGED <<pc, req>>
       ELSE IF FindById(user, ObjectId(p.leader_user_id)) = {}
       THEN /\ out' = NotFound(w, "create_team", "Leader user not found",
                               p.leader_user_id)
            /\ UNCHANGED <<pc, req>>
       ELSE /\ Cardinality(team) + Cardinality(Pending("create_team_insert")) < MaxTeams
            /\ pc' = [pc EXCEPT ![w] = "create_team_insert"]
            /\ req' = [req EXCEPT ![w] = [op |-> "create_team", payload |-> p]]
            /\ UNCHANGED out
    /\ UNCHANGED <<user, team, recVars>>

create_team_insert_with_role(w) ==
    /\ pc[w] = "create_team_insert"
    /\ LET id == GenOid("team", nextOid["team"] + 1)
           new == [u \in user |-> SetRole(u, id, "leader")]
       IN  /\ team' = InsertOne(team, TeamDump(req[w].payload, now), id)
           /\ user' = UpdateOne(user, ObjectId(req[w].payload.leader_user_id), new)
           /\ req' = [req EXCEPT ![w] = [op |-> "create_team",
                                         payload |-> req[w].payload,
                                         inserted_id |-> id]]
    /\ nextOid' = [nextOid EXCEPT !["team"] = @ + 1]
    /\ pc' = [pc EXCEPT ![w] = "create_team_role"]
    /\ UNCHANGED <<out, record, now, resp, life>>

\* POST /api/teams, second call: insert_one of the team
create_team_insert(w) ==
    /\ pc[w] = "create_team_insert"
    /\ LET id == GenOid("team", nextOid["team"] + 1)
       IN  /\ team' = InsertOne(team, TeamDump(req[w].payload, now), id)
           /\ req' = [req EXCEPT ![w] = [op |-> "create_team",
                                         payload |-> req[w].payload,
                                         inserted_id |-> id]]
    /\ nextOid' = [nextOid EXCEPT !["team"] = @ + 1]
    /\ pc' = [pc EXCEPT ![w] = "create_team_role"]
    /\ UNCHANGED <<user, out, record, now, resp, life>>

\* POST /api/teams, third call: the leader's role
create_team_role(w) ==
    /\ pc[w] = "create_team_role"
    /\ LET r == req[w]
           new == [u \in user |-> SetRole(u, r.inserted_id, "leader")]
       IN  /\ user' = UpdateOne(user, ObjectId(r.payload.leader_user_id), new)
           /\ out' = [w |-> w, op |-> "create_team", status |-> 200,
                      id |-> r.inserted_id]
    /\ pc' = [pc EXCEPT ![w] = "idle"]
    /\ req' = [req EXCEPT ![w] = Idle]
    /\ UNCHANGED <<team, recVars>>

\* POST /api/teams/{team_id}/invite, first call: find_one on the team
invite_find(w, team_id, email) ==
    /\ pc[w] = "idle"
    /\ IF ~IsValidOid(team_id)
       THEN /\ out' = BadId(w, "invite", team_id)
            /\ UNCHANGED <<pc, req>>
       ELSE IF FindById(team, ObjectId(team_id)) = {}
       THEN /\ out' = NotFound(w, "invite", "Team not found", team_id)
            /\ UNCHANGED <<pc, req>>
       ELSE /\ pc' = [pc EXCEPT ![w] = "invite_add"]
            /\ req' = [req EXCEPT ![w] = [op |-> "invite", team_id |-> team_id,
                                          email |-> email]]
            /\ UNCHANGED out
    /\ UNCHANGED <<user, team, recVars>>

\* POST /api/teams/{team_id}/invite, second call: $addToSet on invites
invite_add(w) ==
    /\ pc[w] = "invite_add"
    /\ LET r == req[w]
           new == [t \in team |-> AddToSet(t, "invites", r.email)]
       IN  team' = UpdateOne(team, ObjectId(r.team_id), new)
    /\ out' = [w |-> w, op |-> "invite", status |-> 200, body |-> "ok"]
    /\ pc' = [pc EXCEPT ![w] = "idle"]
    /\ req' = [req EXCEPT ![w] = Idle]
    /\ UNCHANGED <<user, recVars>>

\* POST /api/teams/{team_id}/join, first call: find_one on the team
join_team_find_team(w, team_id, user_id) ==
    /\ pc[w] = "idle"
    /\ IF ~IsValidOid(team_id)
       THEN /\ out' = BadId(w, "join_team", team_id)
            /\ UNCHANGED <<pc, req>>
       ELSE IF FindById(team, ObjectId(team_id)) = {}
       THEN /\ out' = NotFound(w, "join_team", "Team not found", team_id)
            /\ UNCHANGED <<pc, req>>
       ELSE /\ pc' = [pc EXCEPT ![w] = "join_team_find_user"]
            /\ req' = [req EXCEPT ![w] = [op |-> "join_team", team_id |-> team_id,
                                          user_id |-> user_id]]
            /\ UNCHANGED out
    /\ UNCHANGED <<user, team, recVars>>

\* POST /api/teams/{team_id}/join, second call: find_one on the user
join_team_find_user(w) ==
    /\ pc[w] = "join_team_find_user"
    /\ LET r == req[w]
       IN  IF ~IsValidOid(r.user_id)
           THEN /\ out' = BadId(w, "join_team", r.user_id)
                /\ pc' = [pc EXCEPT ![w] = "idle"]
                /\ req' = [req EXCEPT ![w] = Idle]
           ELSE IF FindById(user, ObjectId(r.user_id)) = {}
           THEN /\ out' = NotFound(w, "join_team", "User not found", r.user_id)
                /\ pc' = [pc EXCEPT ![w] = "idle"]
                /\ req' = [req EXCEPT ![w] = Idle]
           ELSE /\ pc' = [pc EXCEPT ![w] = "join_team_add"]
                /\ UNCHANGED <<req, out>>
    /\ UNCHANGED <<user, team, recVars>>

\* POST /api/teams/{team_id}/join, third call: $addToSet on member_ids
join_team_add(w) ==
    /\ pc[w] = "join_team_add"
    /\ LET r == req[w]
           new == [t \in team |-> AddToSet(t, "member_ids", r.user_id)]
       IN  team' = UpdateOne(team, ObjectId(r.team_id), new)
    /\ pc' = [pc EXCEPT ![w] = "join_team_role"]
    /\ UNCHANGED <<user, req, out, recVars>>

\* POST /api/teams/{team_id}/join, fourth call: the member's role
join_team_role(w) ==
    /\ pc[w] = "join_team_role"
    /\ LET r == req[w]
           new == [u \in user |-> SetRole(u, r.team_id, "adult")]
       IN  /\ user' = UpdateOne(user, ObjectId(r.user_id), new)
           /\ out' = [w |-> w, op |-> "join_team", status |-> 200,
                      team_id |-> r.team_id, user_id |-> r.user_id]
    /\ pc' = [pc EXCEPT ![w] = "idle"]
    /\ req' = [req EXCEPT ![w] = Idle]
    /\ UNCHANGED <<team, recVars>>

\* GET /api/teams/{team_id}
get_team(w, team_id) ==
    /\ pc[w] = "idle"
    /\ IF ~IsValidOid(team_id)
       THEN out' = BadId(w, "get_team", team_id)
       ELSE IF FindById(team, ObjectId(team_id)) = {}
       THEN out' = NotFound(w, "get_team", "Team not found", team_id)
       ELSE \E t \in FindById(team, ObjectId(team_id)) :
               out' = [w |-> w, op |-> "get_team", status |-> 200, doc |-> t]
    /\ UNCHANGED <<pc, req, user, team, recVars>>

\* the worker process stops inside a handler: the store calls it made stay,
\* the calls it had still to make are never made, and no response is sent
crash(w) ==
    /\ pc[w] # "idle"
    /\ pc' = [pc EXCEPT ![w] = "idle"]
    /\ req' = [req EXCEPT ![w] = Idle]
    /\ out' = [w |-> w, op |-> "crash", status |-> 0, at |-> pc[w]]
    /\ UNCHANGED <<user, team, recVars>>

----------------------------------------------------------------------------

Init ==
    /\ record = {}
    /\ user = {}
    /\ team = {}
    /\ nextOid = [c \in {"record", "user", "team"} |-> 0]
    /\ now = 0
    /\ resp = [op |-> "start", status |-> 0]
    /\ life = <<>>
    /\ pc = [w \in Workers |-> "idle"]
    /\ req = [w \in Workers |-> Idle]
    /\ out = [op |-> "start", status |-> 0]

CreateRecord == \E p \in CreatePayloads : create_record(p)

ListRecords ==
    \E t \in TeamIdInputs, r \in RequesterInputs, f \in ListFilters :
        list_records(t, r, f[1], f[2])

UpdateRecord == \E id \in RecordIdInputs, p \in UpdatePayloads : update_record(id, p)

SoftDeleteRecord == \E id \in RecordIdInputs : soft_delete_record(id)

ListTrash == \E t \in TeamIdInputs : list_trash(t)

RestoreRecord == \E id \in RecordIdInputs : restore_record(id)

PurgeExpired == \E i \in PurgeInputs : purge_expired(i[1], i[2])

Next ==
    \/ CreateRecord
    \/ ListRecords
    \/ UpdateRecord
    \/ SoftDeleteRecord
    \/ ListTrash
    \/ RestoreRecord
    \/ PurgeExpired
    \/ Tick

\* the record and trash endpoints
Spec == Init /\ [][Next]_vars

NextTrash ==
    \/ CreateRecord
    \/ SoftDeleteRecord
    \/ RestoreRecord
    \/ PurgeExpired
    \/ TickHalf

\* the trash lifecycle of records, with a clock that stops inside the 30 days
SpecTrash == Init /\ [][NextTrash]_vars

CreateUserFind == \E w \in Workers, p \in CreateUserPayloads : create_user_find(w, p)

CreateUserInsert == \E w \in Workers : create_user_insert(w)

RegisterDeviceFind == \E w \in Workers, p \in DevicePayloads : register_device_find(w, p)

RegisterDevicePush == \E w \in Workers : register_device_push(w)

NextUsers ==
    \/ CreateUserFind
    \/ CreateUserInsert
    \/ RegisterDeviceFind
    \/ RegisterDevicePush

\* the user endpoints, run by concurrent workers
SpecUsers == Init /\ [][NextUsers]_vars

CreateTeamFind == \E w \in Workers, p \in CreateTeamPayloads : create_team_find(w, p)

CreateTeamInsert == \E w \in Workers : create_team_insert(w)

CreateTeamRole == \E w \in Workers : create_team_role(w)

InviteFind == \E w \in Workers, i \in InviteInputs : invite_find(w, i[1], i[2])

InviteAdd == \E w \in Workers : invite_add(w)

JoinTeamFindTeam ==
    \E w \in Workers, j \in JoinInputs : join_team_find_team(w, j[1], j[2])

JoinTeamFindUser == \E w \in Workers : join_team_find_user(w)

JoinTeamAdd == \E w \in Workers : join_team_add(w)

JoinTeamRole == \E w \in Workers : join_team_role(w)

GetTeam == \E w \in Workers, t \in TeamIdStrings : get_team(w, t)

NextTeams ==
    \/ CreateUserFind
    \/ CreateUserInsert
    \/ CreateTeamFind
    \/ CreateTeamInsert
    \/ CreateTeamRole
    \/ InviteFind
    \/ InviteAdd
    \/ JoinTeamFindTeam
    \/ JoinTeamFindUser
    \/ JoinTeamAdd
    \/ JoinTeamRole
    \/ GetTeam

\* the team endpoints (with create user), run by concurrent workers
SpecTeams == Init /\ [][NextTeams]_vars

NextDevices ==
    \/ CreateUserFind
    \/ CreateUserInsert
    \/ RegisterDeviceFind
    \/ RegisterDevicePush
    \/ CreateTeamFind
    \/ CreateTeamInsert
    \/ CreateTeamRole

\* the user endpoints together with create team, which writes user documents
\* as well, run by concurrent workers
SpecDevices == Init /\ [][NextDevices]_vars

Crash == \E w \in Workers : crash(w)

NextCrash ==
    \/ CreateUserFind
    \/ CreateUserInsert
    \/ CreateTeamFind
    \/ CreateTeamInsert
    \/ CreateTeamRole
    \/ JoinTeamFindTeam
    \/ JoinTeamFindUser
    \/ JoinTeamAdd
    \/ JoinTeamRole
    \/ Crash

\* create user, create team and join team, run by concurrent workers that may
\* stop between two store calls
SpecCrash == Init /\ [][NextCrash]_vars

----------------------------------------------------------------------------
(* Claims about the record endpoints, checked under Spec.                  *)
(* Every step of Spec sets resp to the response of the request it handled, *)
(* so resp' tells which request a step served.                             *)

Listed(items, d) == \E i \in 1..Len(items) : items[i]["_id"] = d["_id"]

\* C1: in a listing, a private record selected by the query is returned exactly
\* when the requester id is supplied and equals the record's author_id: it is
\* omitted for another requester and when no requester id is supplied.
C1_PrivacyFiltering ==
    resp["op"] = "list_records" =>
        \A d \in RecordQuery(record, resp["team_id"], resp["type"],
                             resp["include_deleted"]) :
            d["is_private"] =>
                (Listed(resp["items"], d) <=>
                    resp["requester_id"] = Some(d["author_id"]))

\* C2: a stored record that is not currently soft-deleted carries no deleted_at
\* field, is selected by the default query of its team and is not in the trash
\* listing; a record is in the trash listing exactly when it is soft-deleted.
C2_DeletedAtAbsentUnlessSoftDeleted ==
    \A d \in record :
        /\ ~InTrash(life[d["_id"]]) =>
              /\ ~HasField(d, "deleted_at")
              /\ d \in RecordQuery(record, d["team_id"], None, FALSE)
        /\ d \in TrashQuery(record, d["team_id"]) <=> InTrash(life[d["_id"]])

\* the stored record a response is about, before and after the step
Target(coll, id) == FindById(coll, ObjectId(id))

Served(op) == resp'["op"] = op /\ resp'["status"] = 200

\* C5: a soft delete at time t sets deleted_at = t and purge_at = t + 30 days
\* and returns that purge instant, whatever the fields held before; a restore
\* removes both fields, so that the record is selected by the default query of
\* its team and no longer by the trash query.
C5_Step ==
    /\ Served("soft_delete_record") =>
          /\ Target(record, resp'["id"]) # {}
          /\ \A d \in Target(record', resp'["id"]) :
                /\ d["deleted_at"] = Some(now)
                /\ d["purge_at"] = Some(now + 30)
                /\ resp'["purge_at"] = now + 30
    /\ Served("restore_record") =>
          /\ Target(record, resp'["id"]) # {}
          /\ \A d \in Target(record', resp'["id"]) :
                /\ ~HasField(d, "deleted_at") /\ ~HasField(d, "purge_at")
                /\ d \in RecordQuery(record', d["team_id"], None, FALSE)
                /\ d \notin TrashQuery(record', d["team_id"])
          /\ Cardinality(Target(record', resp'["id"])) = 1

C5_SoftDeleteRestoreRoundTrip == [][C5_Step]_vars

\* a record created at day 0 is soft-deleted at day 30 and carries the instants
\* of that call
C5_Witness ==
    /\ resp["op"] = "soft_delete_record" /\ resp["status"] = 200
    /\ \E d \in Target(record, resp["id"]) :
          /\ d["created_at"] = 0
          /\ d["deleted_at"] = Some(30)
          /\ d["purge_at"] = Some(60)
          /\ life[d["_id"]] = "trashed"

Expired(d, t) == HasField(d, "purge_at") /\ d["purge_at"] # None /\ d["purge_at"][1] <= t

\* C6: purge-expired without a record id removes exactly the records whose
\* purge_at is at or before now (of the given team, when a team id is supplied)
\* and returns their number; records whose purge_at is later, records that are
\* not soft-deleted and records of another team stay in the store unchanged.
C6_Step ==
    (Served("purge_expired") /\ ~Truthy(resp'["id_filter"])) =>
        LET t == resp'["team_filter"]
            InScope(d) == Truthy(t) => d["team_id"] = t[1]
        IN  /\ record' \subseteq record
            /\ \A d \in record :
                  /\ (Expired(d, now) /\ InScope(d)) => d \notin record'
                  /\ ~InTrash(life[d["_id"]]) => d \in record'
                  /\ (HasField(d, "purge_at") /\ d["purge_at"] # None
                        /\ d["purge_at"][1] > now) => d \in record'
                  /\ ~InScope(d) => d \in record'
            /\ resp'["deleted"] = Cardinality(record \ record')

C6_PurgeEligibility == [][C6_Step]_vars

\* a purge scoped to team "111...1" at day 30 removed one record and left
\* a record of the other team that is expired as well
C6_Witness ==
    /\ resp["op"] = "purge_expired" /\ resp["status"] = 200
    /\ resp["id_filter"] = None /\ resp["team_filter"] = Some(TeamOne)
    /\ resp["deleted"] = 1
    /\ \E d \in record : d["team_id"] = ShortId /\ Expired(d, now)

\* C7: purge-expired with a record id removes that one record, soft-deleted or
\* not, expired or not, whatever the team filter; nothing else is removed and
\* it returns 1 if the record existed and 0 otherwise.
C7_Step ==
    (Served("purge_expired") /\ Truthy(resp'["id_filter"])) =>
        LET id == resp'["id_filter"][1]
        IN  /\ record' = {d \in record : d["_id"] # ObjectId(id)}
            /\ resp'["deleted"] = IF Target(record, id) # {} THEN 1 ELSE 0

C7_ExplicitPurgeBypass == [][C7_Step]_vars

\* at day 0, when no purge_at can have elapsed, a purge by id with the filter
\* of another team removed one record and left the other
C7_Witness ==
    /\ resp["op"] = "purge_expired" /\ resp["status"] = 200
    /\ Truthy(resp["id_filter"]) /\ resp["team_filter"] = Some(ShortId)
    /\ resp["deleted"] = 1
    /\ now = 0
    /\ \E d \in record : d["team_id"] = TeamOne /\ ~InTrash(life[d["_id"]])

\* C8: update record changes exactly the supplied fields and updated_at of the
\* addressed record; its other fields and every other record stay as they were.
C8_Step ==
    Served("update_record") =>
        LET supplied == {f \in UpdateFields : resp'["update"][f] # None}
            Value(f) == IF f \in NullableFields THEN resp'["update"][f]
                        ELSE resp'["update"][f][1]
        IN  \E d \in Target(record, resp'["id"]), e \in Target(record', resp'["id"]) :
                /\ record' \ {e} = record \ {d}
                /\ DOMAIN e = DOMAIN d \cup supplied
                /\ \A f \in supplied : e[f] = Value(f)
                /\ e["updated_at"] = now
                /\ \A f \in DOMAIN d \ (supplied \cup {"updated_at"}) : e[f] = d[f]

C8_PartialUpdate == [][C8_Step]_vars

\* a content-only update at day 30 of a record created at day 0
C8_Witness ==
    /\ resp["op"] = "update_record" /\ resp["status"] = 200
    /\ resp["update"] = [NoUpdate EXCEPT !["content"] = Some("c2")]
    /\ \E d \in Target(record, resp["id"]) :
          /\ d["content"] = "c2" /\ d["tags"] = <<>> /\ d["is_private"]
          /\ d["created_at"] = 0 /\ d["updated_at"] = 30

\* the entity ids a request carries
RequestIds(r) ==
    CASE r["op"] = "create_record" -> {r["payload"]["team_id"], r["payload"]["author_id"]}
      [] r["op"] = "list_records" ->
            {r["team_id"]} \cup (IF r["requester_id"] = None THEN {} ELSE {r["requester_id"][1]})
      [] r["op"] = "list_trash" -> {r["team_id"]}
      [] r["op"] \in {"update_record", "soft_delete_record", "restore_record"} -> {r["id"]}
      [] r["op"] = "purge_expired" /\ r["status"] = 200 ->
            (IF r["team_filter"] = None THEN {} ELSE {r["team_filter"][1]}) \cup
            (IF r["id_filter"] = None THEN {} ELSE {r["id_filter"][1]})
      [] r["op"] = "purge_expired" /\ r["status"] # 200 -> {r["id"]}
      [] OTHER -> {}

\* C9: a request that carries a malformed id is answered 400 and leaves the
\* store unchanged.
C9_Step ==
    (\E id \in RequestIds(resp') : ~IsValidOid(id)) =>
        resp'["status"] = 400 /\ record' = record

C9_IdValidation == [][C9_Step]_vars

----------------------------------------------------------------------------
(* Claims about the user endpoints, checked under SpecUsers *)

\* C3: no two user documents share an email, whatever the interleaving of
\* concurrent create-user requests.
C3_EmailsUnique ==
    \A u1, u2 \in user : u1["email"] = u2["email"] => u1 = u2

\* C4: create user with an email that a user already holds answers 409 and
\* inserts nothing; with an email no user holds it goes on to insert exactly
\* one user, with empty roles and empty devices.
C4_Step ==
    /\ (pc' = pc /\ out'["op"] = "create_user") =>
          /\ out'["status"] = 409
          /\ \E u \in user : u["email"] = out'["email"]
          /\ user' = user
    /\ \A w \in Workers :
          /\ (pc[w] = "idle" /\ pc'[w] = "create_user_insert") =>
                /\ ~\E u \in user : u["email"] = req'[w].payload.email
                /\ user' = user
          /\ (pc[w] = "create_user_insert" /\ pc'[w] = "idle") =>
                \E d \in user' :
                    /\ d \notin user
                    /\ user' = user \cup {d}
                    /\ d["email"] = req[w].payload.email
                    /\ d["roles"] = <<>>
                    /\ d["devices"] = <<>>
                    /\ out'["status"] = 200 /\ out'["id"] = d["_id"]

C4_CreateUserConflict == [][C4_Step]_vars

\* a second request for a held email was answered 409 and the one user is
\* still the only one
C4_Witness ==
    /\ out["op"] = "create_user" /\ out["status"] = 409
    /\ Cardinality(user) = 1
    /\ \A u \in user : u["email"] = out["email"]

----------------------------------------------------------------------------
(* Claims about the team endpoints, checked under SpecTeams *)

NoDuplicates(seq) == \A i, j \in 1..Len(seq) : seq[i] = seq[j] => i = j

EntriesOf(t, u) ==
    {i \in 1..Len(t["member_ids"]) : ObjectId(t["member_ids"][i]) = u["_id"]}

\* C10: after any invites and joins a team holds each invited email once and
\* has a single member entry for each user that joined it.
C10_IdempotentInviteAndJoin ==
    \A t \in team :
        /\ NoDuplicates(t["invites"])
        /\ \A u \in user : Cardinality(EntriesOf(t, u)) <= 1

\* the role a user document holds under a key of its roles map, if any
RoleOf(u, key) == IF key \in DOMAIN u["roles"] THEN Some(u["roles"][key]) ELSE None

\* C11: create team with leader U inserts a team whose leader_id is U and whose
\* member_ids and invites are empty, and when it returns the new id T the team
\* T is stored with leader_id = U and U's roles map holds roles[T] = "leader";
\* when U references no stored user it answers 404, inserts no team and changes
\* no user.
C11_Step ==
    /\ \A w \in Workers :
          /\ (pc[w] = "idle" /\ pc'[w] = "create_team_insert") =>
                /\ FindById(user, ObjectId(req'[w].payload.leader_user_id)) # {}
                /\ team' = team /\ user' = user
          /\ (pc[w] = "create_team_insert" /\ pc'[w] = "create_team_role") =>
                \E t \in team' :
                    /\ t \notin team /\ team' = team \cup {t}
                    /\ FindById(team, t["_id"]) = {}
                    /\ t["_id"] = req'[w].inserted_id
                    /\ t["leader_id"] = req[w].payload.leader_user_id
                    /\ t["member_ids"] = <<>> /\ t["invites"] = <<>>
                    /\ user' = user
          /\ (pc[w] = "create_team_role" /\ pc'[w] = "idle") =>
                /\ out'["op"] = "create_team" /\ out'["status"] = 200
                /\ out'["id"] = req[w].inserted_id
                /\ \E t \in FindById(team', out'["id"]) :
                      t["leader_id"] = req[w].payload.leader_user_id
                /\ \E u \in FindById(user', ObjectId(req[w].payload.leader_user_id)) :
                      RoleOf(u, out'["id"]) = Some("leader")
                /\ team' = team
    /\ (pc' = pc /\ out'["op"] = "create_team" /\ out'["status"] = 404) =>
          /\ FindById(user, ObjectId(out'["id"])) = {}
          /\ team' = team /\ user' = user

C11_TeamCreation == [][C11_Step]_vars

\* create team returned the id of a stored team led by the first user, who
\* holds the role "leader" for it
C11_Witness ==
    /\ out["op"] = "create_team" /\ out["status"] = 200
    /\ \E t \in FindById(team, out["id"]) :
          \E u \in FindById(user, ObjectId(t["leader_id"])) :
              RoleOf(u, t["_id"]) = Some("leader")

----------------------------------------------------------------------------
(* Further claims about the record endpoints, checked under Spec *)

\* C12: list records returns its records ordered by created_at descending: a
\* record created at a later instant precedes every record created earlier;
\* list trash orders its records by deleted_at descending in the same way.
C12_ListingOrder ==
    /\ resp["op"] = "list_records" =>
          \A i, j \in 1..Len(resp["items"]) :
              resp["items"][i]["created_at"] > resp["items"][j]["created_at"] => i < j
    /\ resp["op"] = "list_trash" =>
          \A i, j \in 1..Len(resp["items"]) :
              (/\ resp["items"][i]["deleted_at"] # None
               /\ resp["items"][j]["deleted_at"] # None
               /\ resp["items"][i]["deleted_at"][1] > resp["items"][j]["deleted_at"][1])
                  => i < j

\* a listing of two records of one team, the one created at day 30 before the
\* one created at day 0
C12_Witness ==
    /\ resp["op"] = "list_records" /\ Len(resp["items"]) = 2
    /\ resp["items"][1]["created_at"] = 30
    /\ resp["items"][2]["created_at"] = 0

\* C13: every stored record has deleted_at and purge_at both absent or both
\* present, and when present both hold an instant or both hold null.
C13_DeletedAtAndPurgeAtTogether ==
    \A d \in record :
        /\ HasField(d, "deleted_at") <=> HasField(d, "purge_at")
        /\ HasField(d, "deleted_at") => (d["deleted_at"] = None <=> d["purge_at"] = None)

\* one record is in the trash with both instants while another was restored
\* and has neither field
C13_Witness ==
    /\ \E d \in record :
          /\ HasField(d, "deleted_at") /\ d["deleted_at"] # None
          /\ HasField(d, "purge_at") /\ d["purge_at"] # None
          /\ d["updated_at"] > d["created_at"]
    /\ \E d \in record :
          /\ ~HasField(d, "deleted_at") /\ ~HasField(d, "purge_at")
          /\ life[d["_id"]] = "restored"

\* the caller a listing request identifies: list_records takes an optional
\* requester id, list_trash takes none
CallerOf(r) == IF r["op"] = "list_records" THEN r["requester_id"] ELSE None

\* C14: a listing (list records, with or without include_deleted, and list
\* trash) returns a private record only when the caller is identified as the
\* record's author.
C14_PrivateOnlyToAuthor ==
    resp["op"] \in {"list_records", "list_trash"} =>
        \A i \in 1..Len(resp["items"]) :
            resp["items"][i]["is_private"] =>
                CallerOf(resp) = Some(resp["items"][i]["author_id"])

\* a record leaves the normal listing in a step: it is selected by the default
\* query of its team before the step and not after it
Leaves(d) ==
    /\ d \in RecordQuery(record, d["team_id"], None, FALSE)
    /\ \A e \in FindById(record', d["_id"]) :
          e \notin RecordQuery(record', e["team_id"], None, FALSE)

\* a record is hard-deleted in a step
Removed(d) == FindById(record', d["_id"]) = {}

SoftDeleteOf(d) == Served("soft_delete_record") /\ ObjectId(resp'["id"]) = d["_id"]

PurgeByIdOf(d) ==
    /\ Served("purge_expired") /\ Truthy(resp'["id_filter"])
    /\ IsValidOid(resp'["id_filter"][1])
    /\ ObjectId(resp'["id_filter"][1]) = d["_id"]

\* C15: in any step in which a record stops being selected by the default
\* query of its team, the operation performed was soft delete of that record;
\* a record that is not soft-deleted is never hard-deleted.
C15_Original_Step ==
    \A d \in record :
        /\ Leaves(d) => SoftDeleteOf(d)
        /\ ~InTrash(life[d["_id"]]) => ~Removed(d)

C15_SoftDeleteOnlyWayOut == [][C15_Original_Step]_vars

\* C15 as amended: in any step in which a record stops being selected by the
\* default query of its team, the operation performed was soft delete of that
\* record or purge-expired called with that record's id; a record that is not
\* soft-deleted is hard-deleted only by purge-expired called with its id.
C15_Amended_Step ==
    \A d \in record :
        /\ Leaves(d) => (SoftDeleteOf(d) \/ PurgeByIdOf(d))
        /\ (~InTrash(life[d["_id"]]) /\ Removed(d)) => PurgeByIdOf(d)

C15_SoftDeleteOrPurgeById == [][C15_Amended_Step]_vars

\* a restored record, which the default query selected, was soft-deleted and
\* is no longer selected
C15_Witness ==
    /\ resp["op"] = "soft_delete_record" /\ resp["status"] = 200
    /\ resp["was"] = "restored"
    /\ \E d \in Target(record, resp["id"]) :
          d \notin RecordQuery(record, d["team_id"], None, FALSE)

\* C16: update record, soft delete and restore called with a well-formed id
\* that matches no stored record answer 404 and leave the record collection
\* unchanged; none of the three ever adds a record to the collection.
C16_Step ==
    resp'["op"] \in {"update_record", "soft_delete_record", "restore_record"} =>
        /\ (IsValidOid(resp'["id"]) /\ Target(record, resp'["id"]) = {}) =>
              /\ resp'["status"] = 404
              /\ record' = record
        /\ IdsOf(record') = IdsOf(record)

C16_NotFound == [][C16_Step]_vars

\* a request for the id of a record that was created and has been purged was
\* answered 404
C16_Witness ==
    /\ resp["op"] \in {"update_record", "soft_delete_record", "restore_record"}
    /\ resp["status"] = 404
    /\ resp["id"] = GenOid("record", 1)
    /\ nextOid["record"] >= 1
    /\ Target(record, resp["id"]) = {}

----------------------------------------------------------------------------
(* Claims about workers that stop inside a handler, checked under SpecCrash *)

\* a user holds a role entry for a team: a key of its roles map is the team id
HasRoleFor(u, t) == \E k \in DOMAIN u["roles"] : ObjectId(k) = t["_id"]

LeaderWithoutRole(t) ==
    \E u \in FindById(user, ObjectId(t["leader_id"])) : ~HasRoleFor(u, t)

MemberWithoutRole(t) ==
    \E i \in 1..Len(t["member_ids"]) :
        \E u \in FindById(user, ObjectId(t["member_ids"][i])) : ~HasRoleFor(u, t)

\* C17: create team and join team each make two separate writes with no
\* compensation: the team insert (the member add) is a step of its own that
\* leaves the user collection as it is, and a worker that stops before the
\* second write leaves both collections as they are, the first write included.
C17_Step ==
    \A w \in Workers :
        /\ (pc[w] = "create_team_insert" /\ pc'[w] = "create_team_role") =>
              /\ user' = user
              /\ \E t \in FindById(team', req'[w].inserted_id) :
                    t \notin team /\ LeaderWithoutRole(t)'
        /\ (pc[w] = "join_team_add" /\ pc'[w] = "join_team_role") =>
              /\ user' = user
              /\ \E t \in FindById(team', ObjectId(req[w].team_id)) :
                    InSeq(t["member_ids"], req[w].user_id)
        /\ (pc[w] \in {"create_team_role", "join_team_role"} /\ pc'[w] = "idle"
              /\ out'["op"] = "crash") =>
              /\ team' = team /\ user' = user

C17_TwoWritesNoCompensation == [][C17_Step]_vars

\* no handler is running, and a team is stored whose leader has no role entry
\* for it and whose member set holds a user with no role entry for it
C17_Witness ==
    /\ \A w \in Workers : pc[w] = "idle"
    /\ \E t \in team : LeaderWithoutRole(t) /\ MemberWithoutRole(t)

----------------------------------------------------------------------------
(* Claims about the device list, checked under SpecDevices *)

\* worker w makes the $push of a registration for the user document u
PushFor(w, u) ==
    /\ pc[w] = "register_device_push" /\ pc'[w] = "idle"
    /\ ObjectId(req[w].payload.user_id) = u["_id"]

\* C18: each successful register-device request appends exactly one device,
\* the one of the request, to the end of the list of an existing user; no other
\* step changes a device list and no user loses a device, whatever the
\* interleaving of the workers; a registration for a user that does not exist
\* answers 404 and changes nothing.
C18_Step ==
    /\ \A u \in user : \E v \in FindById(user', u["_id"]) :
          IF \E w \in Workers : PushFor(w, u)
          THEN \E w \in Workers :
                  /\ PushFor(w, u)
                  /\ out'["op"] = "register_device" /\ out'["status"] = 200
                  /\ Len(v["devices"]) = Len(u["devices"]) + 1
                  /\ SubSeq(v["devices"], 1, Len(u["devices"])) = u["devices"]
                  /\ v["devices"][Len(v["devices"])] =
                        [platform |-> req[w].payload.platform,
                         push_token |-> req[w].payload.push_token,
                         last_active_at |-> Some(now)]
          ELSE v["devices"] = u["devices"]
    /\ \A w \in Workers :
          /\ (pc[w] = "idle" /\ pc'[w] = "register_device_push") =>
                FindById(user, ObjectId(req'[w].payload.user_id)) # {}
          /\ (pc[w] = "register_device_push" /\ pc'[w] = "idle") =>
                \E u \in user : PushFor(w, u)
    /\ (pc' = pc /\ out'["op"] = "register_device" /\ out'["status"] = 404) =>
          /\ FindById(user, ObjectId(out'["id"])) = {}
          /\ user' = user

C18_DevicesAppendOnly == [][C18_Step]_vars

\* a user who leads a team holds two devices, the second appended after the
\* first by the registration just answered
C18_Witness ==
    /\ out["op"] = "register_device" /\ out["status"] = 200
    /\ \E u \in user :
          /\ Len(u["devices"]) = 2
          /\ u["devices"][1]["push_token"] = Some("p2")
          /\ u["devices"][2]["push_token"] = Some("p1")
          /\ DOMAIN u["roles"] # {}

----------------------------------------------------------------------------
(* Further claims about the team endpoints, checked under SpecTeams *)

\* the leader of team t holds the role "leader" for it in the collection users
LeaderHoldsRole(users, t) ==
    \E u \in FindById(users, ObjectId(t["leader_id"])) :
        RoleOf(u, t["_id"]) = Some("leader")

\* C19: once the leader of a team holds the role "leader" for it, as when
\* create team has completed, they hold it in every later state: no step
\* changes roles[T] of the user that T's leader_id references.
C19_Step ==
    \A t \in team : LeaderHoldsRole(user, t) => LeaderHoldsRole(user', t)

C19_LeaderKeepsRole == [][C19_Step]_vars

----------------------------------------------------------------------------
(* Claims about the trash lifecycle, checked under SpecTrash *)

\* C20: a soft delete of a record that is already in the trash succeeds and
\* overwrites deleted_at and purge_at with the call time and the call time + 30
\* days; a purge-expired without a record id removes no trashed record whose
\* last soft delete is less than 30 days back, so soft deletes repeated before
\* purge_at elapses keep the record from being purged.
C20_Step ==
    /\ (Served("soft_delete_record") /\ resp'["was"] = "trashed") =>
          /\ \E d \in Target(record, resp'["id"]) :
                HasField(d, "deleted_at") /\ d["deleted_at"] # None
          /\ \A d \in Target(record', resp'["id"]) :
                /\ d["deleted_at"] = Some(now)
                /\ d["purge_at"] = Some(now + 30)
          /\ resp'["purge_at"] = now + 30
    /\ (Served("purge_expired") /\ ~Truthy(resp'["id_filter"])) =>
          \A d \in record :
              (InTrash(life[d["_id"]]) /\ now < d["deleted_at"][1] + 30) =>
                  d \in record'

C20_RepeatedSoftDeletePostpones == [][C20_Step]_vars

\* a record created at day 0 and already in the trash was soft-deleted again
\* at day 15 and now carries day 15 and day 45
C20_Witness ==
    /\ resp["op"] = "soft_delete_record" /\ resp["status"] = 200
    /\ resp["was"] = "trashed"
    /\ now = 15
    /\ \E d \in Target(record, resp["id"]) :
          /\ d["created_at"] = 0
          /\ d["deleted_at"] = Some(15) /\ d["purge_at"] = Some(45)

====
